---- MODULE Spec2Model ----
(***************************************************************************)
(* Model of changedns_v2.py: one reconciliation run of the dynamic-DNS     *)
(* updater (main), its helpers, and the external collaborators it calls    *)
(* (cache flush, nslookup, the public-IP HTTP service, the DNS provider,   *)
(* the pickled configuration file, the console and the log file).          *)
(*                                                                         *)
(* Python strings are modelled as sequences of pieces.  A piece is an      *)
(* atomic run of characters ("8.8.8.8", "#53", "Address", ":") or one      *)
(* whitespace character (" ", "\t", "\n").  The string operations the      *)
(* script uses (strip, split, splitlines, startswith, in, f-strings) are   *)
(* computed on these sequences.  An optional value (Python None) is a      *)
(* sequence of length 0, a present value s is <<s>>.                       *)
(***************************************************************************)
EXTENDS Integers, Sequences, FiniteSets, TLC

\* ------------------------------------------------------------------ bounds
MaxLines == 3      \* lines of an arbitrary lookup output (SpecParse)
MaxRecords == 2    \* records in one describeRecord answer
MaxRuns == 2       \* successive runs of the script

\* ------------------------------------------------------ Python primitives
WS == {" ", "\t", "\n"}

None == <<>>
Some(v) == <<v>>
IsNone(o) == o = <<>>
Val(o) == o[1]

\* str(x) of an optional string inside an f-string: None prints as "None"
Format(o) == IF IsNone(o) THEN <<"None">> ELSE Val(o)

\* bool(s) of a string: the empty string is falsy
Truthy(s) == s # <<>>

\* s.strip()
strip(s) ==
    LET idx == {i \in 1..Len(s) : s[i] \notin WS}
    IN  IF idx = {} THEN <<>>
        ELSE LET lo == CHOOSE i \in idx : \A j \in idx : i <= j
                 hi == CHOOSE i \in idx : \A j \in idx : j <= i
             IN  SubSeq(s, lo, hi)

\* s.split(): the maximal runs of non-whitespace pieces, in order
RECURSIVE split(_)
split(s) ==
    IF s = <<>> THEN <<>>
    ELSE IF s[1] \in WS THEN split(Tail(s))
    ELSE LET stops == {i \in 1..Len(s) : s[i] \in WS}
             e == IF stops = {} THEN Len(s) + 1
                  ELSE CHOOSE i \in stops : \A j \in stops : i <= j
         IN  <<SubSeq(s, 1, e - 1)>> \o split(SubSeq(s, e + 1, Len(s)))

\* s.splitlines(): split at "\n"; a final "\n" opens no further line
RECURSIVE splitlines(_)
splitlines(s) ==
    IF s = <<>> THEN <<>>
    ELSE LET nls == {i \in 1..Len(s) : s[i] = "\n"}
         IN  IF nls = {} THEN <<s>>
             ELSE LET e == CHOOSE i \in nls : \A j \in nls : i <= j
                  IN  <<SubSeq(s, 1, e - 1)>> \o splitlines(SubSeq(s, e + 1, Len(s)))

\* sub in s, for a sub that is one piece
Contains(s, piece) == \E i \in 1..Len(s) : s[i] = piece

\* s.startswith(prefix)
startswith(s, prefix) ==
    /\ Len(s) >= Len(prefix)
    /\ SubSeq(s, 1, Len(prefix)) = prefix

Last(s) == s[Len(s)]

\* ------------------------------------------------- nslookup output parsing
\* the filter of line 90
IsCandidateLine(line) ==
    /\ Contains(line, "Address")
    /\ ~startswith(line, <<"Non-authoritative">>)

\* line 91: line.split()[-1]
ip_candidate(line) == Last(split(line))

\* line 92: the candidate is kept unless it equals the queried server
AcceptsCandidate(cand, server) == cand # server

\* lines 89-94: the loop over the lines, leaving at the first accepted one
RECURSIVE ScanLines(_, _)
ScanLines(lines, server) ==
    IF lines = <<>> THEN None
    ELSE IF /\ IsCandidateLine(lines[1])
            /\ AcceptsCandidate(ip_candidate(lines[1]), server)
         THEN Some(ip_candidate(lines[1]))
         ELSE ScanLines(Tail(lines), server)

\* lines 85, 88-94: resolved_ip from the stdout of nslookup
ParseNslookup(out, server) == ScanLines(splitlines(out), server)

\* ------------------------------------------------------------- the world
IPs == {<<"203.0.113.5">>, <<"198.51.100.9">>}

\* platform.system() of the host (line 30)
Platforms == {"Windows", "Linux"}

\* what the operator may type at the four prompts of lines 76-79 ("" = Enter)
TypedServers == {<<>>, <<"1.1.1.1">>}
TypedDomains == {<<>>, <<"www">>}
TypedTypes == {<<>>}
TypedNames == {<<>>}

\* the answers to the prompt of line 147
SaveAnswers == {<<"y">>, <<"Y">>, <<"n">>}

\* a configuration pickled by the current script, and one pickled by the
\* older 3-field version of it
DefaultConfig == <<<<"8.8.8.8">>, <<"abc">>, <<"A">>, <<"mylabcdd.top">>>>
OldConfig == <<<<"abc">>, <<"A">>, <<"mylabcdd.top">>>>
InitialFiles == {None, Some(DefaultConfig), Some(OldConfig)}

\* the ids of the records the provider may hold for the subdomain
RecordNames == <<<<"r1">>, <<"r2">>, <<"r3">>, <<"r4">>>>

\* the record lists a describeRecord answer may carry: the first n records,
\* in ascending or in descending order
RecordLists ==
    {<<>>} \cup
    UNION {{[i \in 1..n |-> RecordNames[i]],
            [i \in 1..n |-> RecordNames[n + 1 - i]]} : n \in 1..MaxRecords}

\* error codes of a ServerException, with their messages
ServerErrors == {[error_code |-> <<"DomainRecordDuplicate">>,
                  message |-> <<"The DNS record already exists.">>],
                 [error_code |-> <<"InvalidAccessKeyId.NotFound">>,
                  message |-> <<"Specified access key is not found.">>]}

\* the stdout of nslookup for a query of name at server, in the format of the
\* host's nslookup; answer is the address DNS holds for the name, if any
NslookupOutput(os, server, name, answer) ==
    LET head == IF os = "Windows"
                THEN <<"Server", ":", " ", " ", "UnKnown", "\n",
                       "Address", ":", " ", " ">> \o server \o <<"\n", "\n">>
                ELSE <<"Server", ":", "\t", "\t">> \o server \o <<"\n",
                       "Address", ":", "\t">> \o server \o <<"#53", "\n", "\n",
                       "Non-authoritative", " ", "answer", ":", "\n">>
        body == IF IsNone(answer) THEN <<>>
                ELSE <<"Name", ":", "\t">> \o name \o <<"\n",
                       "Address", ":", " ">> \o Val(answer) \o <<"\n">>
    IN  head \o body

\* the answers DNS may give: an address, or (Windows nslookup, which then
\* still exits with status 0) none
Answers(os) == {Some(a) : a \in IPs} \cup (IF os = "Windows" THEN {None} ELSE {})

\* the status of an HTTP response, as text
StatusLine(status) == IF status = 200 THEN <<"200", " ", "OK">>
                      ELSE <<"502", " ", "Bad", " ", "Gateway">>

\* the responses of the public-IP service for a caller whose address is ip
Responses(ip) ==
    {[status |-> 200, text |-> ip \o <<"\n">>],
     [status |-> 200, text |-> <<>>],
     [status |-> 200, text |-> <<" ", "\n">>],
     [status |-> 502, text |-> <<"Bad", " ", "Gateway", "\n">>]}

\* ------------------------------------------------------------------ state
VARIABLES
    pc,                  \* the step main() is at
    run,                 \* which run of the script this is
    os_name,             \* platform.system()
    environ,             \* whether os.environ holds the two access-key variables
    egress,              \* the host's public address, the same in every run
    config_file,         \* the content of dns_config.pkl, None when absent
    config,              \* (dns_server, domain, dns_type, domain_name)
    using_saved_config,
    output,              \* result.stdout of nslookup, None when it gave none
    resolved_ip,
    public_ip,           \* None until line 101 assigns it
    response,            \* the record list of the describeRecord answer
    record_id,
    io,                  \* [stdout, logfile]: the console and dns_update.log
    calls,               \* the external calls of this run, in order
    prev                 \* what the previous run did

vars == <<pc, run, os_name, environ, egress, config_file, config,
          using_saved_config, output, resolved_ip, public_ip, response,
          record_id, io, calls, prev>>

world == <<run, os_name, environ, egress, prev>>
locals == <<config, using_saved_config, output, resolved_ip, public_ip,
            response, record_id>>

dns_server == config[1]
domain == config[2]
dns_type == config[3]
domain_name == config[4]

\* line 84
full_domain == domain \o <<".">> \o domain_name

\* ---------------------------------------------------------------- logging
Message(tag, args) == [msg |-> tag, arg |-> args]

\* lines 22-27: always printed; written to the log file only at the levels
\* "info" and "error"
log_and_print(o, message, level) ==
    [stdout |-> Append(o.stdout, message),
     logfile |-> IF level = "info"
                 THEN Append(o.logfile, [level |-> "INFO", message |-> message])
                 ELSE IF level = "error"
                 THEN Append(o.logfile, [level |-> "ERROR", message |-> message])
                 ELSE o.logfile]

\* lines 150-152: the handler of main(); the traceback names the exception
\* and the statement that raised it
except_Exception(o, exc, at) ==
    log_and_print(log_and_print(o, Message("exception", <<>>), "error"),
                  Message("traceback", <<<<exc>>, <<at>>>>), "error")

\* an external call: what was called, with which arguments, how it ended
\* ("ok", or the exception or provider error code it raised) and what it
\* returned
Call(op, args, result, reply) ==
    [op |-> op, args |-> args, result |-> result, reply |-> reply]

\* ------------------------------------------------------------------- Init
NoRun == [outcome |-> "None", updates |-> 0, config |-> <<>>,
          faithful |-> FALSE]

Init ==
    /\ pc = "clear_dns_cache"
    /\ run = 1
    /\ os_name \in Platforms
    /\ environ \in BOOLEAN
    /\ egress \in IPs
    /\ config_file \in InitialFiles
    /\ config = <<>>
    /\ using_saved_config = FALSE
    /\ output = None
    /\ resolved_ip = None
    /\ public_ip = None
    /\ response = None
    /\ record_id = None
    /\ io = [stdout |-> <<>>, logfile |-> <<>>]
    /\ calls = <<>>
    /\ prev = NoRun

\* ------------------------------------------------------------ lines 29-40
FlushCommand(os) ==
    IF os = "Windows" THEN <<<<"ipconfig">>, <<"/flushdns">>>>
    ELSE <<<<"sudo">>, <<"systemd-resolve">>, <<"--flush-caches">>>>

\* the outcomes of subprocess.run(..., check=True): the command ran and
\* exited 0, ran and exited non-zero, or could not be started
ProcessOutcomes == {"ok", "CalledProcessError", "FileNotFoundError"}

clear_dns_cache(r) ==
    /\ pc = "clear_dns_cache"
    /\ calls' = Append(calls, Call("flush", FlushCommand(os_name), r, <<>>))
    /\ \/ /\ r = "ok"
          /\ io' = log_and_print(io, Message("cache_cleared", <<>>), "info")
          /\ pc' = "load_config"
       \/ /\ r = "CalledProcessError"
          /\ io' = log_and_print(io, Message("cache_error", <<>>), "error")
          /\ pc' = "load_config"
       \/ /\ r = "FileNotFoundError"
          /\ io' = except_Exception(io, r, "clear_dns_cache")
          /\ pc' = "done"
    /\ UNCHANGED <<world, locals, config_file>>

main_clear_dns_cache == \E r \in ProcessOutcomes : clear_dns_cache(r)

\* ------------------------------------------------------------ lines 42-44
get_user_input(typed, default) == IF Truthy(typed) THEN typed ELSE default

\* ------------------------------------------------------------ lines 50-54
load_config == config_file

\* ------------------------------------------------------------ lines 68-81
ConfigMessage(c) == Message("config", c)

main_load_config ==
    /\ pc = "load_config"
    /\ calls' = Append(calls, Call("load_config", <<>>, "ok",
                                   IF IsNone(load_config) THEN <<>>
                                   ELSE Val(load_config)))
    /\ LET saved_config == load_config IN
       \/ /\ ~IsNone(saved_config)
          /\ Len(Val(saved_config)) = 4
          /\ config' = Val(saved_config)
          /\ using_saved_config' = TRUE
          /\ io' = log_and_print(
                     log_and_print(io, Message("using_saved", <<>>), "info"),
                     ConfigMessage(config'), "info")
          /\ pc' = "nslookup"
       \/ /\ ~IsNone(saved_config)
          /\ Len(Val(saved_config)) # 4
          /\ io' = except_Exception(io, "ValueError", "unpack")
          /\ pc' = "done"
          /\ UNCHANGED <<config, using_saved_config>>
       \/ /\ IsNone(saved_config)
          /\ \E s \in TypedServers, d \in TypedDomains,
                t \in TypedTypes, n \in TypedNames :
                config' = <<get_user_input(s, <<"8.8.8.8">>),
                            get_user_input(d, <<"abc">>),
                            get_user_input(t, <<"A">>),
                            get_user_input(n, <<"mylabcdd.top">>)>>
          /\ using_saved_config' = FALSE
          /\ io' = log_and_print(io, ConfigMessage(config'), "info")
          /\ pc' = "nslookup"
    /\ UNCHANGED <<world, config_file, output, resolved_ip, public_ip,
                   response, record_id>>

\* ------------------------------------------------------------ lines 83-97
nslookup_returns(out) ==
    /\ pc = "nslookup"
    /\ calls' = Append(calls, Call("nslookup", <<full_domain, dns_server>>,
                                   "ok", <<out>>))
    /\ output' = Some(out)
    /\ resolved_ip' = ParseNslookup(out, dns_server)
    /\ io' = log_and_print(io, Message("resolved", <<Format(resolved_ip')>>), "info")
    /\ pc' = "get_ip"
    /\ UNCHANGED <<world, config_file, config, using_saved_config, public_ip,
                   response, record_id>>

\* a failed lookup tried again
nslookup_fails_Retry(r) ==
    /\ pc = "nslookup"
    /\ calls' = Append(calls, Call("nslookup", <<full_domain, dns_server>>,
                                   r, <<>>))
    /\ io' = log_and_print(io, Message("cannot_resolve", <<>>), "error")
    /\ pc' = "nslookup"
    /\ UNCHANGED <<world, locals, config_file>>

nslookup_fails(r) ==
    /\ pc = "nslookup"
    /\ calls' = Append(calls, Call("nslookup", <<full_domain, dns_server>>,
                                   r, <<>>))
    /\ \/ /\ r = "CalledProcessError"
          /\ io' = log_and_print(io, Message("cannot_resolve", <<>>), "error")
          /\ pc' = "get_ip"
       \/ /\ r = "FileNotFoundError"
          /\ io' = except_Exception(io, r, "nslookup")
          /\ pc' = "done"
    /\ UNCHANGED <<world, locals, config_file>>

main_nslookup ==
    \/ \E a \in Answers(os_name) :
          nslookup_returns(NslookupOutput(os_name, dns_server, full_domain, a))
    \/ \E r \in ProcessOutcomes \ {"ok"} : nslookup_fails(r)

\* ----------------------------------------------------------- lines 99-102
get_ip_returns(resp) ==
    /\ pc = "get_ip"
    /\ calls' = Append(calls, Call("get_ip", <<>>, "ok",
                                   <<resp.text, StatusLine(resp.status)>>))
    /\ public_ip' = Some(strip(resp.text))
    /\ io' = log_and_print(io, Message("public_ip", <<Val(public_ip')>>), "info")
    /\ pc' = "compare"
    /\ UNCHANGED <<world, config_file, config, using_saved_config, output,
                   resolved_ip, response, record_id>>

\* the failure handled like the failure of nslookup: reported, and the run
\* goes on with an empty address
get_ip_raises_Swallowed ==
    /\ pc = "get_ip"
    /\ calls' = Append(calls, Call("get_ip", <<>>, "ConnectionError", <<>>))
    /\ public_ip' = Some(<<>>)
    /\ io' = log_and_print(io, Message("cannot_resolve", <<>>), "error")
    /\ pc' = "compare"
    /\ UNCHANGED <<world, config_file, config, using_saved_config, output,
                   resolved_ip, response, record_id>>

\* the exception leaving main() uncaught: the process dies with a traceback
\* of the interpreter, nothing is reported
get_ip_raises_Uncaught ==
    /\ pc = "get_ip"
    /\ calls' = Append(calls, Call("get_ip", <<>>, "ConnectionError", <<>>))
    /\ pc' = "crashed"
    /\ UNCHANGED <<world, locals, config_file, io>>

\* requests.get raises (no route, connection refused, ...)
get_ip_raises ==
    /\ pc = "get_ip"
    /\ calls' = Append(calls, Call("get_ip", <<>>, "ConnectionError", <<>>))
    /\ io' = except_Exception(io, "ConnectionError", "get_ip")
    /\ pc' = "done"
    /\ UNCHANGED <<world, locals, config_file>>

main_get_ip ==
    \/ \E resp \in Responses(egress) : get_ip_returns(resp)
    \/ get_ip_raises

\* ---------------------------------------------------------- lines 104-112
\* the comparison with its sense inverted
SameIp_Inverted(resolved, public) ==
    /\ ~IsNone(resolved)
    /\ Truthy(Val(resolved))
    /\ Val(resolved) # public

\* line 105
SameIp(resolved, public) ==
    /\ ~IsNone(resolved)
    /\ Truthy(Val(resolved))
    /\ Val(resolved) = public

\* the credentials read before the comparison instead of after it
main_compare_CredentialsFirst ==
    /\ pc = "compare"
    /\ \/ /\ ~environ
          /\ io' = except_Exception(io, "KeyError", "environ")
          /\ calls' = Append(calls, Call("environ", <<>>, "KeyError", <<>>))
          /\ pc' = "done"
       \/ /\ environ
          /\ SameIp(resolved_ip, Val(public_ip))
          /\ io' = log_and_print(io, Message("same", <<>>), "info")
          /\ calls' = Append(calls, Call("environ", <<>>, "ok", <<>>))
          /\ pc' = "save"
       \/ /\ environ
          /\ ~SameIp(resolved_ip, Val(public_ip))
          /\ io' = log_and_print(io, Message("differ", <<full_domain>>), "info")
          /\ calls' = Append(calls, Call("environ", <<>>, "ok", <<>>))
          /\ pc' = "describe"
    /\ UNCHANGED <<world, locals, config_file>>

main_compare ==
    /\ pc = "compare"
    /\ \/ /\ SameIp(resolved_ip, Val(public_ip))
          /\ io' = log_and_print(io, Message("same", <<>>), "info")
          /\ calls' = calls
          /\ pc' = "save"
       \/ /\ ~SameIp(resolved_ip, Val(public_ip))
          /\ environ
          /\ io' = log_and_print(io, Message("differ", <<full_domain>>), "info")
          /\ calls' = Append(calls, Call("environ", <<>>, "ok", <<>>))
          /\ pc' = "describe"
       \/ /\ ~SameIp(resolved_ip, Val(public_ip))
          /\ ~environ
          /\ io' = except_Exception(
                     log_and_print(io, Message("differ", <<full_domain>>), "info"),
                     "KeyError", "environ")
          /\ calls' = Append(calls, Call("environ", <<>>, "KeyError", <<>>))
          /\ pc' = "done"
    /\ UNCHANGED <<world, locals, config_file>>

\* ---------------------------------------------------------- lines 114-126
\* lines 120-125: the id of the first record, None without a record
first_record_id(resp) ==
    IF ~IsNone(resp) /\ Val(resp) # <<>> THEN Some(Val(resp)[1]) ELSE None

\* the test of line 127 dropped
RecordFound_Always(rid) == TRUE

\* line 127
RecordFound(rid) == ~IsNone(rid) /\ Truthy(Val(rid))

\* the answer of describeRecord: an empty body (None), or a record list
describe_returns(resp) ==
    /\ pc = "describe"
    /\ calls' = Append(calls, Call("describeRecord", <<domain_name, domain>>,
                                   "ok", IF IsNone(resp) THEN <<>> ELSE Val(resp)))
    /\ response' = resp
    /\ record_id' = first_record_id(resp)
    /\ \/ /\ RecordFound(record_id')
          /\ pc' = "update"
          /\ io' = io
       \/ /\ ~RecordFound(record_id')
          /\ io' = log_and_print(io, Message("no_record", <<>>), "error")
          /\ pc' = "save"
    /\ UNCHANGED <<world, config_file, config, using_saved_config, output,
                   resolved_ip, public_ip>>

\* do_action_with_exception raises: the provider refused (ServerException) or
\* the SDK could not reach it (ClientException)
describe_raises(exc) ==
    /\ pc = "describe"
    /\ calls' = Append(calls, Call("describeRecord", <<domain_name, domain>>,
                                   exc, <<>>))
    /\ io' = except_Exception(io, exc, "describeRecord")
    /\ pc' = "done"
    /\ UNCHANGED <<world, locals, config_file>>

main_describe ==
    \/ \E resp \in {None} \cup {Some(l) : l \in RecordLists} : describe_returns(resp)
    \/ \E exc \in {"ServerException", "ClientException"} : describe_raises(exc)

\* ---------------------------------------------------------- lines 127-144
\* the last record of the answer taken instead of the first
UpdateArgs_LastRecord ==
    <<Last(Val(response)), domain, dns_type, Val(public_ip)>>

\* lines 130-133: RecordId, RR, Type, Value of the update request
UpdateArgs == <<Format(record_id), domain, dns_type, Val(public_ip)>>

\* the message compared instead of the code
IsDuplicate_Message(e) == e.message = <<"DomainRecordDuplicate">>

\* line 139
IsDuplicate(e) == e.error_code = <<"DomainRecordDuplicate">>

\* line 137 passes str(update_response) where log_and_print takes the level
UpdateResponseText == "{\"RequestId\": \"...\", \"RecordId\": \"...\"}"

update_returns ==
    /\ pc = "update"
    /\ calls' = Append(calls, Call("updateRecord", UpdateArgs, "ok", <<>>))
    /\ io' = log_and_print(io, Message("update_ok", <<>>), UpdateResponseText)
    /\ pc' = "save"
    /\ UNCHANGED <<world, locals, config_file>>

update_raises_ServerException(e) ==
    /\ pc = "update"
    /\ calls' = Append(calls, Call("updateRecord", UpdateArgs,
                                   e.error_code[1], <<>>))
    /\ \/ /\ IsDuplicate(e)
          /\ io' = log_and_print(io, Message("duplicate", <<>>), "error")
       \/ /\ ~IsDuplicate(e)
          /\ io' = log_and_print(
                     io, Message("update_error", <<e.error_code, e.message>>),
                     "error")
    /\ pc' = "save"
    /\ UNCHANGED <<world, locals, config_file>>

update_raises_ClientException ==
    /\ pc = "update"
    /\ calls' = Append(calls, Call("updateRecord", UpdateArgs,
                                   "ClientException", <<>>))
    /\ io' = except_Exception(io, "ClientException", "updateRecord")
    /\ pc' = "done"
    /\ UNCHANGED <<world, locals, config_file>>

main_update ==
    \/ update_returns
    \/ \E e \in ServerErrors : update_raises_ServerException(e)
    \/ update_raises_ClientException

\* ---------------------------------------------------------- lines 146-149
\* str.lower() on the answers of the prompt
lower(s) == [i \in 1..Len(s) |-> IF s[i] = "Y" THEN "y" ELSE s[i]]

\* lines 46-48
save_config(c) == Some(c)

\* the configuration saved whatever the operator answers
main_save_AnyAnswer ==
    /\ pc = "save"
    /\ \/ /\ using_saved_config
          /\ UNCHANGED <<config_file, io, calls>>
       \/ /\ ~using_saved_config
          /\ \E answer \in SaveAnswers :
                /\ config_file' = save_config(config)
                /\ io' = log_and_print(io, Message("saved", <<>>), "info")
                /\ calls' = calls \o
                      <<Call("confirm_save", <<>>, "ok", <<answer>>),
                        Call("save_config", config, "ok", <<>>)>>
    /\ pc' = "done"
    /\ UNCHANGED <<world, locals>>

main_save ==
    /\ pc = "save"
    /\ \/ /\ using_saved_config
          /\ UNCHANGED <<config_file, io, calls>>
       \/ /\ ~using_saved_config
          /\ \E answer \in SaveAnswers :
                IF lower(answer) = <<"y">>
                THEN /\ config_file' = save_config(config)
                     /\ io' = log_and_print(io, Message("saved", <<>>), "info")
                     /\ calls' = calls \o
                           <<Call("confirm_save", <<>>, "ok", <<answer>>),
                             Call("save_config", config, "ok", <<>>)>>
                ELSE /\ calls' = Append(calls, Call("confirm_save", <<>>, "ok",
                                                    <<answer>>))
                     /\ UNCHANGED <<config_file, io>>
    /\ pc' = "done"
    /\ UNCHANGED <<world, locals>>

\* ------------------------------------------------------- outcome of a run
Printed(tag) == \E i \in 1..Len(io.stdout) : io.stdout[i].msg = tag

RaisedAt(at) ==
    \E i \in 1..Len(io.stdout) :
        /\ io.stdout[i].msg = "traceback"
        /\ io.stdout[i].arg[2] = <<at>>

\* the UpdateOutcome a run reported, read off what it printed
Outcome ==
    IF Printed("same") THEN "NoUpdateNeeded"
    ELSE IF Printed("update_ok") THEN "Updated"
    ELSE IF Printed("duplicate") THEN "DuplicateRecord"
    ELSE IF Printed("update_error") THEN "ProviderError"
    ELSE IF Printed("no_record") THEN "RecordNotFound"
    ELSE IF RaisedAt("get_ip") THEN "ResolutionFailed"
    ELSE IF RaisedAt("environ") \/ RaisedAt("unpack") THEN "ConfigurationError"
    ELSE IF Printed("traceback") THEN "UnexpectedException"
    ELSE "None"

Called(op) == {i \in 1..Len(calls) : calls[i].op = op}

\* the lookup of this run answered with the host's own public address
Faithful ==
    /\ ~IsNone(output)
    /\ Val(output) = NslookupOutput(os_name, dns_server, full_domain, Some(egress))
    /\ public_ip = Some(egress)

\* ------------------------------------------------- the next run of the script
\* the process ends; a scheduler starts the script again on the same host
next_run ==
    /\ pc = "done"
    /\ run < MaxRuns
    /\ run' = run + 1
    /\ prev' = [outcome |-> Outcome,
                updates |-> Cardinality(Called("updateRecord")),
                config |-> config,
                faithful |-> Faithful]
    /\ pc' = "clear_dns_cache"
    /\ config' = <<>>
    /\ using_saved_config' = FALSE
    /\ output' = None
    /\ resolved_ip' = None
    /\ public_ip' = None
    /\ response' = None
    /\ record_id' = None
    /\ io' = [stdout |-> <<>>, logfile |-> <<>>]
    /\ calls' = <<>>
    /\ UNCHANGED <<os_name, environ, egress, config_file>>

Next ==
    \/ main_clear_dns_cache
    \/ main_load_config
    \/ main_nslookup
    \/ main_get_ip
    \/ main_compare
    \/ main_describe
    \/ main_update
    \/ main_save
    \/ next_run

Spec == Init /\ [][Next]_vars

\* -------------------------------------- the parsing of arbitrary lookup output
\* lines a lookup tool may print; an output is up to MaxLines of them
Lines ==
    {<<"Server", ":", "\t", "\t", "8.8.8.8">>,
     <<"Address", ":", "\t", "8.8.8.8", "#53">>,
     <<"Address", ":", " ", " ", "8.8.8.8">>,
     <<"Non-authoritative", " ", "answer", ":">>,
     <<"Non-authoritative", " ", "Address", ":", " ", "203.0.113.5">>,
     <<"Name", ":", "\t", "abc", ".", "mylabcdd.top">>,
     <<"Address", ":", " ", "203.0.113.5">>,
     <<"Address", "es", ":", " ", " ", "198.51.100.9">>,
     <<>>}

RECURSIVE JoinLines(_)
JoinLines(ls) ==
    IF ls = <<>> THEN <<>> ELSE ls[1] \o <<"\n">> \o JoinLines(Tail(ls))

ParseOutputs ==
    {JoinLines(ls) : ls \in UNION {[1..n -> Lines] : n \in 0..MaxLines}}

parse_nslookup == \E out \in ParseOutputs : nslookup_returns(out)

InitParse ==
    /\ Init
    /\ os_name = "Linux"
    /\ environ
    /\ egress = <<"203.0.113.5">>

NextParse ==
    \/ main_clear_dns_cache
    \/ main_load_config
    \/ parse_nslookup

SpecParse == InitParse /\ [][NextParse]_vars

\* ================================================================== claims
ProviderCalls == Called("describeRecord") \cup Called("updateRecord")

\* how the call of op in this run ended; "none" when it was not made
ResultOf(op) ==
    IF Called(op) = {} THEN "none"
    ELSE calls[CHOOSE i \in Called(op) : TRUE].result

ReplyOf(op) == calls[CHOOSE i \in Called(op) : TRUE].reply

\* ---- C9
\* the address a line reports: its last word
AddressOf(line) == Last(split(line))

\* the host an address names: the address without a "#port" suffix
HostOf(addr) ==
    IF Len(addr) >= 2 /\ addr[Len(addr)] = "#53"
    THEN SubSeq(addr, 1, Len(addr) - 1)
    ELSE addr

\* a line qualifies when it is an address line, is no non-authoritative
\* annotation, and does not report the queried server's own address
Qualifies(line, server) ==
    /\ Contains(line, "Address")
    /\ ~startswith(line, <<"Non-authoritative">>)
    /\ HostOf(AddressOf(line)) # server

RECURSIVE FirstQualifying(_, _)
FirstQualifying(lines, server) ==
    IF lines = <<>> THEN None
    ELSE IF Qualifies(lines[1], server) THEN Some(AddressOf(lines[1]))
    ELSE FirstQualifying(Tail(lines), server)

\* C9: for every lookup output and every resolver server, the resolved
\* address is the address of the first qualifying line, the line that reports
\* the queried server's own address is never returned, and the result is
\* absent when no line qualifies.
C9_FirstQualifyingAddress ==
    ResultOf("nslookup") = "ok" =>
        /\ resolved_ip = FirstQualifying(splitlines(Val(output)), dns_server)
        /\ ~IsNone(resolved_ip) => HostOf(Val(resolved_ip)) # dns_server

\* ---- C1
LookupEqualsPublic ==
    /\ ~IsNone(resolved_ip)
    /\ ~IsNone(public_ip)
    /\ Val(resolved_ip) = Val(public_ip)

\* C1: in every run where the domain lookup yields an address string-equal to
\* the address the public-IP service returned, the run ends in NoUpdateNeeded
\* and neither describeRecord nor updateRecord is ever invoked.
C1_EqualMeansNoUpdate ==
    LookupEqualsPublic =>
        /\ ProviderCalls = {}
        /\ pc \in {"compare", "save", "done"}
        /\ pc \in {"save", "done"} => Outcome = "NoUpdateNeeded"

C1_Witness ==
    /\ pc = "done"
    /\ LookupEqualsPublic
    /\ Outcome = "NoUpdateNeeded"

\* ---- C2
\* the lookup was made and gave no address: the process failed, or no line
\* of its output qualified
LookupFailed == Called("nslookup") # {} /\ IsNone(resolved_ip)

\* C2: a failed domain lookup never aborts the run; when the public IP is
\* obtained the comparison reports a mismatch and describeRecord is invoked.
C2_FailedLookupForcesUpdate ==
    (pc = "done" /\ LookupFailed) =>
        /\ ~RaisedAt("nslookup")
        /\ ResultOf("get_ip") = "ok" =>
              Printed("differ") /\ Called("describeRecord") # {}

\* ---- C3
\* C3: in every run where the public-IP service call fails the run ends in
\* ResolutionFailed and no DNS-provider call is made, whatever the lookup gave.
C3_NoPublicIpNoProviderCall ==
    ResultOf("get_ip") = "ConnectionError" =>
        /\ pc = "done"
        /\ Outcome = "ResolutionFailed"
        /\ ProviderCalls = {}

C3_Witness ==
    /\ pc = "done"
    /\ ResultOf("get_ip") = "ConnectionError"
    /\ ~IsNone(resolved_ip)
    /\ Outcome = "ResolutionFailed"

\* ---- C4
NoRecordReturned ==
    ResultOf("describeRecord") = "ok" /\ ReplyOf("describeRecord") = <<>>

\* C4: if describeRecord returns no record (empty response or empty record
\* list) the run ends in RecordNotFound and updateRecord is never invoked;
\* updateRecord is invoked only after describeRecord returned a record.
C4_NoRecordNoUpdate ==
    /\ NoRecordReturned =>
          /\ Called("updateRecord") = {}
          /\ pc \in {"save", "done"}
          /\ Outcome = "RecordNotFound"
    /\ \A i \in Called("updateRecord") :
          \E j \in Called("describeRecord") :
              /\ j < i
              /\ calls[j].result = "ok"
              /\ calls[j].reply # <<>>

C4_Witness ==
    /\ pc = "done"
    /\ NoRecordReturned
    /\ response = Some(<<>>)
    /\ Outcome = "RecordNotFound"

\* ---- C5
\* C5: whenever updateRecord fails with the duplicate-record code the outcome
\* is DuplicateRecord, not ProviderError, and the run goes on to its normal
\* end instead of the unexpected-exception path.
C5_DuplicateIsNotProviderError ==
    ResultOf("updateRecord") = "DomainRecordDuplicate" =>
        /\ Outcome = "DuplicateRecord"
        /\ ~Printed("update_error")
        /\ ~Printed("traceback")
        /\ pc \in {"save", "done"}

C5_Witness ==
    /\ pc = "done"
    /\ ResultOf("updateRecord") = "DomainRecordDuplicate"
    /\ Outcome = "DuplicateRecord"

\* ---- C6
\* a provider call failed, and not with the duplicate-record code
ProviderFailure ==
    \/ ResultOf("describeRecord") \notin {"none", "ok"}
    \/ ResultOf("updateRecord") \notin {"none", "ok", "DomainRecordDuplicate"}

\* C6: every failure of a DNS-provider call other than the duplicate-record
\* code ends the run in ProviderError with the provider's code and message,
\* whichever call raised it and whatever kind of error it is.
C6_EveryProviderFailureIsProviderError ==
    (pc = "done" /\ ProviderFailure) =>
        /\ Outcome = "ProviderError"
        /\ \E i \in 1..Len(io.stdout) :
              /\ io.stdout[i].msg = "update_error"
              /\ Len(io.stdout[i].arg) = 2

\* ---- C7
\* C7: whenever updateRecord is invoked its value is the public IP obtained
\* from the service in this run, its record id the id of the first record
\* describeRecord returned, its RR the configured subdomain and its type the
\* configured record type; a success of the call ends the run in Updated.
C7_UpdateArguments ==
    \A i \in Called("updateRecord") :
        /\ ResultOf("get_ip") = "ok"
        /\ calls[i].args[4] = Val(public_ip)
        /\ Val(public_ip) = strip(ReplyOf("get_ip")[1])
        /\ ResultOf("describeRecord") = "ok"
        /\ ReplyOf("describeRecord") # <<>>
        /\ calls[i].args[1] = ReplyOf("describeRecord")[1]
        /\ calls[i].args[2] = domain
        /\ calls[i].args[3] = dns_type
        /\ calls[i].result = "ok" =>
              Outcome = "Updated" /\ pc \in {"save", "done"}

C7_Witness ==
    /\ pc = "done"
    /\ ResultOf("updateRecord") = "ok"
    /\ Len(ReplyOf("describeRecord")) = 2
    /\ Outcome = "Updated"

\* ---- C8
\* C8: two runs in succession under the same configuration and credentials,
\* with the public IP unchanged and the published record already equal to it
\* (the lookup of each run answers with it), both end in NoUpdateNeeded and
\* neither issues an updateRecord call.
C8_Idempotent ==
    ( /\ pc = "done"
      /\ run >= 2
      /\ environ
      /\ prev.faithful
      /\ Faithful
      /\ prev.config = config ) =>
        /\ prev.outcome = "NoUpdateNeeded"
        /\ prev.updates = 0
        /\ Outcome = "NoUpdateNeeded"
        /\ Called("updateRecord") = {}

\* ---- C10
ExternalCalls == {"flush", "nslookup", "get_ip", "describeRecord", "updateRecord"}

\* C10: no operation is retried: in any single run each external call is
\* issued at most once, also after it failed.
C10_NoRetry == \A op \in ExternalCalls : Cardinality(Called(op)) <= 1

C10_Witness ==
    /\ pc = "done"
    /\ \A op \in ExternalCalls : Cardinality(Called(op)) = 1
    /\ ResultOf("flush") = "CalledProcessError"
    /\ ResultOf("nslookup") = "CalledProcessError"
    /\ ResultOf("updateRecord") = "InvalidAccessKeyId.NotFound"

\* ---- C11
\* the position of a step in main()
Rank(p) ==
    CASE p = "clear_dns_cache" -> 1
      [] p = "load_config" -> 2
      [] p = "nslookup" -> 3
      [] p = "get_ip" -> 4
      [] p = "compare" -> 5
      [] p = "describe" -> 6
      [] p = "update" -> 7
      [] p = "save" -> 8
      [] p = "done" -> 9
      [] OTHER -> 0

\* the messages that report how a run ended; the traceback is the report of
\* a failure caught by the handler of main()
OutcomeTags ==
    {"same", "update_ok", "duplicate", "update_error", "no_record", "traceback"}

OutcomeReports == {i \in 1..Len(io.stdout) : io.stdout[i].msg \in OutcomeTags}

\* steps of Next, one for every position of main() short of done
SomeStep ==
    \/ main_clear_dns_cache
    \/ main_load_config
    \/ \E r \in ProcessOutcomes \ {"ok"} : nslookup_fails(r)
    \/ main_get_ip
    \/ main_compare
    \/ main_describe
    \/ main_update
    \/ main_save

\* C11: every run terminates in Done with exactly one outcome, whatever the
\* external calls do: a run that is not done can always take a step, every
\* step moves main() forward (so a run is at most eight steps long), and a
\* run that is done has reported exactly one outcome; no failure leaves
\* main() uncaught.
C11_TerminatesWithOneOutcome ==
    /\ [](pc # "done" => ENABLED SomeStep)
    /\ [](pc = "done" => Cardinality(OutcomeReports) = 1)
    /\ [][pc' # "clear_dns_cache" => Rank(pc') > Rank(pc)]_vars

C11_Witness ==
    /\ pc = "done"
    /\ RaisedAt("environ")
    /\ ResultOf("flush") = "CalledProcessError"
    /\ ResultOf("nslookup") = "CalledProcessError"
    /\ Cardinality(OutcomeReports) = 1

\* ---- C12
FlushFailed == ResultOf("flush") \in {"CalledProcessError", "FileNotFoundError"}

\* the run went on after the flush: it loaded the configuration and, with a
\* configuration in hand, made the lookup and then asked the public-IP service
WentOnAfterFlush ==
    /\ ~RaisedAt("clear_dns_cache")
    /\ Called("load_config") # {}
    /\ ~RaisedAt("unpack") => Called("nslookup") # {}
    /\ (~RaisedAt("unpack") /\ ~RaisedAt("nslookup")) => Called("get_ip") # {}

\* C12: the flush is best-effort: whatever way it fails (the command exits
\* with an error, or cannot be started at all), the run still loads the
\* configuration and performs both address resolutions.
C12_FlushIsBestEffort == (pc = "done" /\ FlushFailed) => WentOnAfterFlush

\* ---- C13
\* C13: missing credentials affect only runs that reach Updating: a run whose
\* two addresses are equal never reads the credentials and ends in
\* NoUpdateNeeded with or without them; a run whose addresses differ and that
\* has no credentials ends in a configuration error, raised where they are
\* read, with no describeRecord or updateRecord call made.
C13_CredentialsOnlyWhenUpdating ==
    /\ (LookupEqualsPublic /\ pc \in {"save", "done"}) =>
          /\ Called("environ") = {}
          /\ Outcome = "NoUpdateNeeded"
    /\ (ResultOf("get_ip") = "ok" /\ ~LookupEqualsPublic /\ ~environ
            /\ pc \notin {"get_ip", "compare"}) =>
          /\ pc = "done"
          /\ ResultOf("environ") = "KeyError"
          /\ Outcome = "ConfigurationError"
          /\ RaisedAt("environ")
          /\ ProviderCalls = {}

\* a run without credentials that found the addresses equal
C13_Witness ==
    /\ pc = "done"
    /\ ~environ
    /\ LookupEqualsPublic
    /\ Outcome = "NoUpdateNeeded"
    /\ Called("environ") = {}

\* ---- C14
\* the answer the operator gave to the prompt of line 147
SaveAnswer == ReplyOf("confirm_save")[1]

\* C14: the configuration store is read at most once, straight after the
\* flush and before anything else, and exactly once by every run that gets
\* past the flush; it is written at most once, as the last thing a run does,
\* and only when the store held no configuration (the configuration was
\* typed in), no exception was raised, and the operator answered y or Y; the
\* tuple written is the (server, subdomain, type, domain name) the run used,
\* and a run that uses a loaded configuration never changes the store.
C14_StoreAccess ==
    /\ [](/\ Cardinality(Called("load_config")) <= 1
          /\ \A i \in Called("load_config") : i = 2 /\ calls[1].op = "flush"
          /\ (Len(calls) >= 2 /\ ~RaisedAt("clear_dns_cache")) =>
                Called("load_config") # {}
          /\ Cardinality(Called("save_config")) <= 1
          /\ \A i \in Called("save_config") :
                /\ i = Len(calls)
                /\ pc = "done"
                /\ ~using_saved_config
                /\ ReplyOf("load_config") = <<>>
                /\ ~Printed("traceback")
                /\ calls[i - 1].op = "confirm_save"
                /\ lower(SaveAnswer) = <<"y">>
                /\ calls[i].args = <<dns_server, domain, dns_type, domain_name>>
                /\ config_file = Some(calls[i].args)
                /\ \A j \in Called("nslookup") :
                      calls[j].args = <<full_domain, dns_server>>
                /\ \A j \in Called("updateRecord") :
                      /\ calls[j].args[2] = domain
                      /\ calls[j].args[3] = dns_type
          /\ using_saved_config => config_file = Some(config))
    /\ [][config_file' # config_file =>
            /\ pc = "save"
            /\ ~using_saved_config
            /\ Called("save_config") = {}
            /\ Called("save_config")' # {}]_vars

\* a configuration typed in and saved on the answer Y, after an update
C14_Witness ==
    /\ pc = "done"
    /\ Called("save_config") # {}
    /\ SaveAnswer = <<"Y">>
    /\ Called("updateRecord") # {}
    /\ ReplyOf("load_config") = <<>>
    /\ config # DefaultConfig
    /\ config_file = Some(config)

\* ---- C15
\* the messages that report the five outcomes of the reconciliation
ReconcileTags == {"same", "update_ok", "duplicate", "no_record", "update_error"}

Logged(message) ==
    \E j \in 1..Len(io.logfile) : io.logfile[j].message = message

\* C15: every outcome of a run (NoUpdateNeeded, Updated, DuplicateRecord,
\* RecordNotFound, ProviderError) that is printed is also appended to the
\* log file; no outcome is reported on the console only.
C15_EveryOutcomeLogged ==
    \A i \in 1..Len(io.stdout) :
        io.stdout[i].msg \in ReconcileTags => Logged(io.stdout[i])

\* ---- C16
\* C16: the value passed to updateRecord is never empty and always comes from
\* a successful response of the public-IP service: after an empty or
\* whitespace-only body, or an HTTP error status, updateRecord is not called.
C16_PublishedValueIsValidated ==
    \A i \in Called("updateRecord") :
        /\ calls[i].args[4] # <<>>
        /\ ResultOf("get_ip") = "ok"
        /\ ReplyOf("get_ip")[2] = StatusLine(200)

====
